---- MODULE Spec2Model ----
(***************************************************************************)
(* The AI NFT minter (src/src/App.js) and its service clients              *)
(* (src/unnamed/part_000, imported by App.js as ./services/openrouter).    *)
(*                                                                         *)
(* The React state of App, the pending timers of the notification store,   *)
(* the wallet's active chain and the asynchronous flows in flight are the   *)
(* state.  A step is one run of JavaScript between two suspension points:   *)
(* a handler from its entry to its first await (or return), or the          *)
(* continuation of a flow from the settling of the promise it awaits to the *)
(* next await (or to the end of its finally block).  React batches the      *)
(* setState calls of one such run into one render, so the controls the user *)
(* sees always show the state at the end of the last step.                  *)
(*                                                                         *)
(* A client function that awaits a response and then its body (fetch, then  *)
(* response.blob()/json()/text()) is one remote call here: the flow writes  *)
(* no state between the two awaits, so the intermediate point is invisible. *)
(***************************************************************************)
EXTENDS Naturals, Sequences, FiniteSets, TLC

VARIABLES
    prompt,          \* App.js:22  useState('')        a sequence of characters
    imagePreview,    \* App.js:23  useState(null)
    tokenURI,        \* App.js:24  useState(null)
    txHash,          \* App.js:25  useState(null)
    loading,         \* App.js:26  useState(false)     the busy flag
    walletAddress,   \* App.js:27  useState(null)
    notifications,   \* App.js:28  useState([])
    timers,          \* pending setTimeout callbacks (App.js:49, 61)
    objectURLs,      \* object URLs created and not revoked (URL.createObjectURL)
    ethereum,        \* whether window.ethereum is injected
    mounted,         \* whether App is mounted
    chainId,         \* the wallet's active chain
    flows,           \* the async invocations of handleGenerate / handleMint in flight
    connects,        \* the async invocations of connectWallet in flight
    lastOp,          \* history: the step taken last
    lastGenerated,   \* history: what the last completed generate flow pinned
    completed        \* history: metadata URIs stored by completed generate flows

vars == <<prompt, imagePreview, tokenURI, txHash, loading, walletAddress,
          notifications, timers, objectURLs, ethereum, mounted, chainId,
          flows, connects, lastOp, lastGenerated, completed>>

appState == <<prompt, imagePreview, tokenURI, txHash, loading, walletAddress>>

history == <<lastGenerated, completed>>

-----------------------------------------------------------------------------
(* Bounds of the model *)

\* generate / mint invocations in flight at once
MaxFlows == 2
\* connectWallet invocations in flight at once
MaxConnects == 1
\* notification ids referred to at once, by the list or by a pending timer
MaxNotifications == 3
\* object URLs alive at once
MaxObjectURLs == 2
\* notification ids referred to already when a call is made with timers
\* pending
MaxTimed == 2

-----------------------------------------------------------------------------
(* Values *)

NULL == "<null>"

\* What the user may type into the textarea.
Prompts ==
    { <<>>, <<" ", " ">>, <<"a", " ", "r", "e", "d", " ", "f", "o", "x">> }

\* Content identifiers the pinning service answers with (result.IpfsHash).
ImageCIDs == {"Qimg"}
MetadataCIDs == {"Qmeta", "Qmeta2"}

\* Transaction hashes the contract call answers with (tx.hash).
TxHashes == {"0xtx"}

\* Accounts of the wallet: the first six characters, the middle, the last four.
Accounts == { [head |-> "0xAb12", middle |-> "00000000000000000000000000000000", tail |-> "9f3C"] }

AddressOf(a) == a.head \o a.middle \o a.tail

\* address.slice(0,6) and address.slice(-4), over the modelled accounts
SliceHead(address) == (CHOOSE a \in Accounts : AddressOf(a) = address).head
SliceTail(address) == (CHOOSE a \in Accounts : AddressOf(a) = address).tail

\* The expected test network (App.js:95, 11155111n = 0xaa36a7) and another one.
Sepolia == 11155111
Chains == {Sepolia, 1}

\* The provider error code of an unknown chain (App.js:100), and the codes a
\* rejected chain switch may carry: unknown chain, user rejected, internal.
UnknownChain == 4902
SwitchErrorCodes == {UnknownChain, 4001, 32603}

\* error.message of a rejected remote call
ErrorMessages == {"Failed to fetch"}

\* The display time of a notification (App.js:51) and the time of its exit
\* animation (App.js:63, 72), in milliseconds.
ExpiryDelay == 5000
ExitDelay == 300

-----------------------------------------------------------------------------
(* Strings *)

IsSpace(c) == c \in {" ", "\t", "\n"}

RECURSIVE TrimStart(_)
TrimStart(s) ==
    IF s # <<>> /\ IsSpace(Head(s)) THEN TrimStart(Tail(s)) ELSE s

RECURSIVE TrimEnd(_)
TrimEnd(s) ==
    IF s # <<>> /\ IsSpace(s[Len(s)]) THEN TrimEnd(SubSeq(s, 1, Len(s) - 1)) ELSE s

\* a prompt taken as it is typed
untrimmed(s) == s

\* String.prototype.trim
trim(s) == TrimEnd(TrimStart(s))

\* the characters of a prompt as one string, for a template literal
RECURSIVE Join(_)
Join(s) == IF s = <<>> THEN "" ELSE Head(s) \o Join(Tail(s))

\* JavaScript truthiness of a nullable string
Truthy(v) == v # NULL /\ v # ""

ObjectURL(n) == "blob:" \o ToString(n)

\* imagePreview.startsWith('blob:')
StartsWithBlob(u) == \E n \in 1..MaxObjectURLs : u = ObjectURL(n)

-----------------------------------------------------------------------------
(* Notification store, App.js:31-73.  The store is threaded through a step *)
(* as a record st = [notifications, timers], because one step may call      *)
(* addNotification several times and React applies the functional updates   *)
(* in order.  A notification carries its age, Date.now() - timestamp, and a *)
(* timer the time left until it is due.                                     *)

Store == [notifications |-> notifications, timers |-> timers]

IdsOf(st) ==
    {st.notifications[i].id : i \in DOMAIN st.notifications}
        \cup {t.id : t \in st.timers}

\* Ids nothing refers to any more.  Date.now() + Math.random() is fresh; an
\* id that neither the list nor a timer holds is as good as fresh.
FreeIds(st) == (1..MaxNotifications) \ IdsOf(st)

\* Few ids are referred to: a call can be made with the timers pending.
FewPending == Cardinality(IdsOf(Store)) < MaxTimed

\* The step needs n fresh ids.
CanNotify(n) == Cardinality(FreeIds(Store)) >= n

\* removeNotification marking every entry, as clearAllNotifications does
removeNotificationMarksAll(st, id) ==
    [notifications |->
        [i \in DOMAIN st.notifications |->
            [st.notifications[i] EXCEPT !.removing = TRUE]],
     timers |-> st.timers \cup
         {[kind |-> "remove", id |-> id, left |-> ExitDelay]}]

removeNotification(st, id) ==
    [notifications |->
        [i \in DOMAIN st.notifications |->
            IF st.notifications[i].id = id
            THEN [st.notifications[i] EXCEPT !.removing = TRUE]
            ELSE st.notifications[i]],
     timers |-> st.timers \cup
         {[kind |-> "remove", id |-> id, left |-> ExitDelay]}]

\* addNotification without its filter: an entry of the same message stays
addNotificationKeepsAll(st, message, type) ==
    LET id == CHOOSE i \in FreeIds(st) : \A j \in FreeIds(st) : i <= j
        notification ==
            [id |-> id, message |-> message, type |-> type, age |-> 0,
             removing |-> FALSE]
    IN  [notifications |-> Append(st.notifications, notification),
         timers |-> st.timers \cup
             {[kind |-> "expire", id |-> id, left |-> ExpiryDelay]}]

\* addNotification putting the new entry first
addNotificationInFront(st, message, type) ==
    LET id == CHOOSE i \in FreeIds(st) : \A j \in FreeIds(st) : i <= j
        notification ==
            [id |-> id, message |-> message, type |-> type, age |-> 0,
             removing |-> FALSE]
        filtered == SelectSeq(st.notifications, LAMBDA n : n.message # message)
    IN  [notifications |-> <<notification>> \o filtered,
         timers |-> st.timers \cup
             {[kind |-> "expire", id |-> id, left |-> ExpiryDelay]}]

\* addNotification without its setTimeout
addNotificationUntimed(st, message, type) ==
    LET id == CHOOSE i \in FreeIds(st) : \A j \in FreeIds(st) : i <= j
        notification ==
            [id |-> id, message |-> message, type |-> type, age |-> 0,
             removing |-> FALSE]
        filtered == SelectSeq(st.notifications, LAMBDA n : n.message # message)
    IN  [notifications |-> Append(filtered, notification),
         timers |-> st.timers]

addNotification(st, message, type) ==
    LET id == CHOOSE i \in FreeIds(st) : \A j \in FreeIds(st) : i <= j
        notification ==
            [id |-> id, message |-> message, type |-> type, age |-> 0,
             removing |-> FALSE]
        filtered == SelectSeq(st.notifications, LAMBDA n : n.message # message)
    IN  [notifications |-> Append(filtered, notification),
         timers |-> st.timers \cup
             {[kind |-> "expire", id |-> id, left |-> ExpiryDelay]}]

\* clearAllNotifications, App.js:66-73
clearAllNotifications(st) ==
    [notifications |->
        [i \in DOMAIN st.notifications |->
            [st.notifications[i] EXCEPT !.removing = TRUE]],
     timers |-> st.timers \cup {[kind |-> "clear", id |-> 0, left |-> ExitDelay]}]

SetStore(st) ==
    /\ notifications' = st.notifications
    /\ timers' = st.timers

\* The callback of timer t of addNotification runs (App.js:49-51).
Expires(t) ==
    /\ t.kind = "expire"
    /\ SetStore(removeNotification(
           [notifications |-> notifications, timers |-> timers \ {t}], t.id))
    /\ lastOp' = "expiryTimer"
    /\ UNCHANGED <<appState, objectURLs, ethereum, mounted, chainId, flows, connects,
                   history>>

\* The callback of timer t of removeNotification runs (App.js:61-63).
Removes(t) ==
    /\ t.kind = "remove"
    /\ notifications' = SelectSeq(notifications, LAMBDA n : n.id # t.id)
    /\ timers' = timers \ {t}
    /\ lastOp' = "removalTimer"
    /\ UNCHANGED <<appState, objectURLs, ethereum, mounted, chainId, flows, connects,
                   history>>

\* The callback of timer t of clearAllNotifications runs (App.js:70-72).
Clears(t) ==
    /\ t.kind = "clear"
    /\ notifications' = <<>>
    /\ timers' = timers \ {t}
    /\ lastOp' = "clearTimer"
    /\ UNCHANGED <<appState, objectURLs, ethereum, mounted, chainId, flows, connects,
                   history>>

\* The 5000 ms timer of addNotification fires, time left out of account.
ExpiryTimer == \E t \in timers : Expires(t)

\* The 300 ms timer of removeNotification fires, time left out of account.
RemovalTimer == \E t \in timers : Removes(t)

\* The close button of a notification (App.js:229-238).
Dismiss ==
    \E i \in DOMAIN notifications :
        /\ SetStore(removeNotification(Store, notifications[i].id))
        /\ lastOp' = "dismiss"
        /\ UNCHANGED <<appState, objectURLs, ethereum, mounted, chainId, flows, connects,
                       history>>

\* The clear-all button is rendered while notifications.length > 3 (App.js:244).
ClearAllShown == Len(notifications) > 3

\* clearAllNotifications is called (App.js:66-73).
ClearAll ==
    /\ SetStore(clearAllNotifications(Store))
    /\ lastOp' = "clearAll"
    /\ UNCHANGED <<appState, objectURLs, ethereum, mounted, chainId, flows, connects,
                   history>>

\* What the App notifies of: a message and its type.
Banners ==
    { [message |-> "Please enter a prompt!", type |-> "error"],
      [message |-> "Minting NFT...", type |-> "info"] }

\* addNotification is called (App.js:31-52).
Notify ==
    /\ CanNotify(1)
    /\ \E b \in Banners : SetStore(addNotification(Store, b.message, b.type))
    /\ lastOp' = "notify"
    /\ UNCHANGED <<appState, objectURLs, ethereum, mounted, chainId, flows, connects,
                   history>>

\* A timer is due when no time is left on it.
Due(t) == t.left = 0

\* a timer that is due fires
DueTimerFires == \E t \in timers : Due(t) /\ (Expires(t) \/ Removes(t))

\* The 300 ms timer of clearAllNotifications fires, time left out of account.
ClearTimer == \E t \in timers : Clears(t)

\* An age past every delay of the store is not told from a greater one.
Aged(age) ==
    IF age > ExpiryDelay + ExitDelay THEN ExpiryDelay + ExitDelay + 1 ELSE age

\* Time passes, by d ms: no timer is left behind.  The steps of time taken are
\* the exit delay and the time to the next timer.
Passes(d) ==
    /\ d > 0
    /\ \A t \in timers : t.left >= d
    /\ timers' = {[t EXCEPT !.left = t.left - d] : t \in timers}
    /\ notifications' =
           [i \in DOMAIN notifications |->
               [notifications[i] EXCEPT !.age = Aged(notifications[i].age + d)]]
    /\ lastOp' = "timePasses"
    /\ UNCHANGED <<appState, objectURLs, ethereum, mounted, chainId, flows, connects,
                   history>>

TimePasses ==
    /\ notifications # <<>> \/ timers # {}
    /\ \E d \in {ExitDelay} \cup {t.left : t \in timers} : Passes(d)

-----------------------------------------------------------------------------
(* Flows in flight *)

Idle == [kind |-> "idle"]

FreeSlots == {i \in 1..MaxFlows : flows[i] = Idle}

\* the slot a new invocation takes
NewSlot == CHOOSE i \in FreeSlots : \A j \in FreeSlots : i <= j

NoGeneration == [latest |-> FALSE]

\* useEffect cleanup (App.js:75-81): runs with the previous imagePreview when
\* imagePreview changes.
EffectCleanup(urls, previous, next) ==
    IF previous # next /\ Truthy(previous) /\ StartsWithBlob(previous)
    THEN urls \ {previous}
    ELSE urls

\* a catch block with no finally: the busy flag stays set
FlowFailsStaysBusy(i, message, op) ==
    /\ CanNotify(1)
    /\ SetStore(addNotification(Store, message, "error"))
    /\ flows' = [flows EXCEPT ![i] = Idle]
    /\ lastOp' = op
    /\ UNCHANGED <<appState, objectURLs, ethereum, mounted, chainId, connects, history>>

\* the catch and finally blocks of handleGenerate (App.js:171-176) and of
\* handleMint (App.js:198-203), which end flow i
FlowFails(i, message, op) ==
    /\ CanNotify(1)
    /\ SetStore(addNotification(Store, message, "error"))
    /\ loading' = FALSE
    /\ flows' = [flows EXCEPT ![i] = Idle]
    /\ lastOp' = op
    /\ UNCHANGED <<prompt, imagePreview, tokenURI, txHash, walletAddress,
                   objectURLs, ethereum, mounted, chainId, connects, history>>

-----------------------------------------------------------------------------
(* Generate flow, App.js:127-177 *)

\* A new generate attempt makes every earlier generation cycle an old one.
Superseded(f) ==
    IF f.kind = "generate" THEN [f EXCEPT !.latest = FALSE]
    ELSE IF f.kind = "mint" /\ f.pc = "getContract"
         THEN [f EXCEPT !.uriLatest = FALSE]
         ELSE f

\* App.js:128-131
GenerateRejected ==
    /\ trim(prompt) = <<>>
    /\ CanNotify(1)
    /\ SetStore(addNotification(Store, "Please enter a prompt!", "error"))
    /\ lastOp' = "generateRejected"
    /\ UNCHANGED <<appState, objectURLs, ethereum, mounted, chainId, flows, connects,
                   history>>

\* handleGenerate leaving the metadata URI and the transaction hash in place
GenerateStartsKeepsTarget ==
    /\ trim(prompt) # <<>>
    /\ FreeSlots # {}
    /\ CanNotify(1)
    /\ loading' = TRUE
    /\ SetStore(addNotification(Store,
           "Generating image with Pollinations AI...", "info"))
    /\ imagePreview' = NULL
    /\ objectURLs' =
           EffectCleanup(
               IF Truthy(imagePreview) /\ StartsWithBlob(imagePreview)
               THEN objectURLs \ {imagePreview}
               ELSE objectURLs,
               imagePreview, imagePreview')
    /\ flows' = [i \in 1..MaxFlows |->
           IF i = NewSlot
           THEN [kind |-> "generate", pc |-> "image", prompt |-> prompt,
                 latest |-> TRUE]
           ELSE Superseded(flows[i])]
    /\ lastGenerated' = [lastGenerated EXCEPT !.latest = FALSE]
    /\ lastOp' = "generateStarts"
    /\ UNCHANGED <<prompt, tokenURI, txHash, walletAddress, ethereum, mounted, chainId,
                   connects, completed>>

\* handleGenerate leaving the displayed image in place until the new one is in
GenerateStartsKeepsImage ==
    /\ trim(prompt) # <<>>
    /\ FreeSlots # {}
    /\ CanNotify(1)
    /\ loading' = TRUE
    /\ SetStore(addNotification(Store,
           "Generating image with Pollinations AI...", "info"))
    /\ tokenURI' = NULL
    /\ txHash' = NULL
    /\ flows' = [i \in 1..MaxFlows |->
           IF i = NewSlot
           THEN [kind |-> "generate", pc |-> "image", prompt |-> prompt,
                 latest |-> TRUE]
           ELSE Superseded(flows[i])]
    /\ lastGenerated' = [lastGenerated EXCEPT !.latest = FALSE]
    /\ lastOp' = "generateStarts"
    /\ UNCHANGED <<prompt, imagePreview, objectURLs, walletAddress, ethereum, mounted,
                   chainId, connects, completed>>

\* App.js:133-145, to the await of generateImageWithPollinations(prompt)
GenerateStarts ==
    /\ trim(prompt) # <<>>
    /\ FreeSlots # {}
    /\ CanNotify(1)
    /\ loading' = TRUE
    /\ SetStore(addNotification(Store,
           "Generating image with Pollinations AI...", "info"))
    /\ imagePreview' = NULL
    /\ objectURLs' =
           EffectCleanup(
               IF Truthy(imagePreview) /\ StartsWithBlob(imagePreview)
               THEN objectURLs \ {imagePreview}
               ELSE objectURLs,
               imagePreview, imagePreview')
    /\ tokenURI' = NULL
    /\ txHash' = NULL
    /\ flows' = [i \in 1..MaxFlows |->
           IF i = NewSlot
           THEN [kind |-> "generate", pc |-> "image", prompt |-> prompt,
                 latest |-> TRUE]
           ELSE Superseded(flows[i])]
    /\ lastGenerated' = [lastGenerated EXCEPT !.latest = FALSE]
    /\ lastOp' = "generateStarts"
    /\ UNCHANGED <<prompt, walletAddress, ethereum, mounted, chainId, connects, completed>>

handleGenerate == GenerateRejected \/ GenerateStarts

\* generateImageWithPollinations throws (part_000:60-63, 76-78): the fetch
\* rejects, or the response is not ok.
ImageFails(i) ==
    /\ flows[i].kind = "generate" /\ flows[i].pc = "image"
    /\ \E m \in ErrorMessages \cup {"Pollinations API not accessible"} :
           FlowFails(i, "Error: Pollinations generation failed: " \o m,
                     "imageFails")

\* generateImageWithPollinations returns (part_000:66-75); App.js:146-154, to
\* the await of uploadToIPFS(blob, ...)
ImageArrives(i) ==
    /\ flows[i].kind = "generate" /\ flows[i].pc = "image"
    /\ CanNotify(2)
    /\ \E n \in 1..MaxObjectURLs :
        /\ ObjectURL(n) \notin objectURLs
        /\ \A k \in 1..(n - 1) : ObjectURL(k) \in objectURLs
        /\ LET display_url == ObjectURL(n)
           IN  /\ imagePreview' = (IF Truthy(display_url) THEN display_url
                                   ELSE imagePreview)
               /\ objectURLs' = EffectCleanup(objectURLs \cup {display_url},
                                              imagePreview, imagePreview')
    /\ SetStore(addNotification(
           addNotification(Store, "Image generated successfully!", "success"),
           "Uploading to IPFS...", "info"))
    /\ flows' = [flows EXCEPT ![i] =
           [kind |-> "generate", pc |-> "pinImage", prompt |-> flows[i].prompt,
            latest |-> flows[i].latest, blob |-> "B"]]
    /\ lastOp' = "imageArrives"
    /\ UNCHANGED <<prompt, tokenURI, txHash, loading, walletAddress, ethereum, mounted,
                   chainId, connects, history>>

\* a failure of uploadToIPFS that is reported and does not end the flow: the
\* metadata is pinned all the same
PinImageFailsGoesOn(i) ==
    /\ flows[i].kind = "generate" /\ flows[i].pc = "pinImage"
    /\ CanNotify(1)
    /\ \E m \in ErrorMessages :
           SetStore(addNotification(Store, "Error: " \o m, "error"))
    /\ flows' = [flows EXCEPT ![i] =
           [kind |-> "generate", pc |-> "pinMetadata",
            prompt |-> flows[i].prompt, latest |-> flows[i].latest,
            imageCID |-> "undefined", metadata |-> "undefined"]]
    /\ lastOp' = "pinImageFails"
    /\ UNCHANGED <<appState, objectURLs, ethereum, mounted, chainId, connects, history>>

\* uploadToIPFS throws (part_000:117-126)
PinImageFails(i) ==
    /\ flows[i].kind = "generate" /\ flows[i].pc = "pinImage"
    /\ \/ \E m \in ErrorMessages : FlowFails(i, "Error: " \o m, "pinImageFails")
       \/ FlowFails(i, "Error: IPFS upload failed: " \o "Unauthorized",
                    "pinImageFails")

\* a metadata document that names the bare CID as its image
MetadataWithBareCID(p, imageCID) ==
    [name |-> "AI Generated NFT",
     description |-> "Generated with Pollinations AI: \"" \o Join(p) \o "\"",
     image |-> imageCID,
     attributes |->
        << [trait_type |-> "Model", value |-> "Pollinations AI"],
           [trait_type |-> "Created", value |-> "<now>"],
           [trait_type |-> "Prompt", value |-> Join(p)] >>]

\* the metadata document of App.js:156-165
Metadata(p, imageCID) ==
    [name |-> "AI Generated NFT",
     description |-> "Generated with Pollinations AI: \"" \o Join(p) \o "\"",
     image |-> "ipfs://" \o imageCID,
     attributes |->
        << [trait_type |-> "Model", value |-> "Pollinations AI"],
           [trait_type |-> "Created", value |-> "<now>"],
           [trait_type |-> "Prompt", value |-> Join(p)] >>]

\* uploadToIPFS returns result.IpfsHash (part_000:127-128); App.js:156-167, to
\* the await of uploadMetadata(metadata)
ImagePinned(i) ==
    /\ flows[i].kind = "generate" /\ flows[i].pc = "pinImage"
    /\ \E imageCID \in ImageCIDs :
        flows' = [flows EXCEPT ![i] =
           [kind |-> "generate", pc |-> "pinMetadata",
            prompt |-> flows[i].prompt, latest |-> flows[i].latest,
            imageCID |-> imageCID,
            metadata |-> Metadata(flows[i].prompt, imageCID)]]
    /\ lastOp' = "imagePinned"
    /\ UNCHANGED <<appState, notifications, timers, objectURLs, ethereum, mounted,
                   chainId, connects, history>>

\* uploadMetadata throws (part_000:132-144)
PinMetadataFails(i) ==
    /\ flows[i].kind = "generate" /\ flows[i].pc = "pinMetadata"
    /\ \/ \E m \in ErrorMessages :
            FlowFails(i, "Error: " \o m, "pinMetadataFails")
       \/ FlowFails(i, "Error: Metadata upload failed: " \o "Unauthorized",
                    "pinMetadataFails")

\* uploadMetadata returns result.IpfsHash (part_000:145-146); App.js:168-169
\* and the finally block
MetadataPinned(i) ==
    /\ flows[i].kind = "generate" /\ flows[i].pc = "pinMetadata"
    /\ CanNotify(1)
    /\ \E metadataCID \in MetadataCIDs :
        /\ tokenURI' = "ipfs://" \o metadataCID
        /\ lastGenerated' =
              [latest |-> flows[i].latest, prompt |-> flows[i].prompt,
               imageCID |-> flows[i].imageCID, metadata |-> flows[i].metadata,
               metadataCID |-> metadataCID]
        /\ completed' = completed \cup {tokenURI'}
    /\ SetStore(addNotification(Store, "Ready to mint NFT!", "success"))
    /\ loading' = FALSE
    /\ flows' = [flows EXCEPT ![i] = Idle]
    /\ lastOp' = "metadataPinned"
    /\ UNCHANGED <<prompt, imagePreview, txHash, walletAddress, objectURLs,
                   ethereum, mounted, chainId, connects>>

-----------------------------------------------------------------------------
(* Mint flow, App.js:179-204 *)

\* App.js:180
MintNoURI ==
    /\ ~Truthy(tokenURI)
    /\ lastOp' = "mintNoURI"
    /\ UNCHANGED <<appState, notifications, timers, objectURLs, ethereum, mounted,
                   chainId, flows, connects, history>>

\* handleMint returning without a word when no wallet is connected
MintNoWalletSilent ==
    /\ Truthy(tokenURI)
    /\ ~Truthy(walletAddress)
    /\ lastOp' = "mintNoWallet"
    /\ UNCHANGED <<appState, notifications, timers, objectURLs, ethereum, mounted,
                   chainId, flows, connects, history>>

\* App.js:181-184
MintNoWallet ==
    /\ Truthy(tokenURI)
    /\ ~Truthy(walletAddress)
    /\ CanNotify(1)
    /\ SetStore(addNotification(Store, "Connect wallet first!", "error"))
    /\ lastOp' = "mintNoWallet"
    /\ UNCHANGED <<appState, objectURLs, ethereum, mounted, chainId, flows, connects,
                   history>>

\* handleMint without its two checks (App.js:180-184)
MintStartsUnchecked ==
    /\ FreeSlots # {}
    /\ CanNotify(1)
    /\ loading' = TRUE
    /\ SetStore(addNotification(Store, "Minting NFT...", "info"))
    /\ flows' = [flows EXCEPT ![NewSlot] =
           [kind |-> "mint", pc |-> "getContract", to |-> walletAddress,
            uri |-> tokenURI, uriLatest |-> lastGenerated.latest]]
    /\ lastOp' = "mintStarts"
    /\ UNCHANGED <<prompt, imagePreview, tokenURI, txHash, walletAddress,
                   objectURLs, ethereum, mounted, chainId, connects, history>>

\* handleMint without the check of tokenURI (App.js:180)
MintStartsWithoutTarget ==
    /\ Truthy(walletAddress)
    /\ FreeSlots # {}
    /\ CanNotify(1)
    /\ loading' = TRUE
    /\ SetStore(addNotification(Store, "Minting NFT...", "info"))
    /\ flows' = [flows EXCEPT ![NewSlot] =
           [kind |-> "mint", pc |-> "getContract", to |-> walletAddress,
            uri |-> tokenURI, uriLatest |-> lastGenerated.latest]]
    /\ lastOp' = "mintStarts"
    /\ UNCHANGED <<prompt, imagePreview, tokenURI, txHash, walletAddress,
                   objectURLs, ethereum, mounted, chainId, connects, history>>

\* App.js:186-190, to the await of getContract(); the continuation closes over
\* the walletAddress and tokenURI of this render
MintStarts ==
    /\ Truthy(tokenURI)
    /\ Truthy(walletAddress)
    /\ FreeSlots # {}
    /\ CanNotify(1)
    /\ loading' = TRUE
    /\ SetStore(addNotification(Store, "Minting NFT...", "info"))
    /\ flows' = [flows EXCEPT ![NewSlot] =
           [kind |-> "mint", pc |-> "getContract", to |-> walletAddress,
            uri |-> tokenURI, uriLatest |-> lastGenerated.latest]]
    /\ lastOp' = "mintStarts"
    /\ UNCHANGED <<prompt, imagePreview, tokenURI, txHash, walletAddress,
                   objectURLs, ethereum, mounted, chainId, connects, history>>

handleMint == MintNoURI \/ MintNoWallet \/ MintStarts

MintFails(i, op) ==
    \E m \in ErrorMessages : FlowFails(i, "Minting failed: " \o m, op)

\* getContract throws (App.js:121-125): no provider, or getSigner rejects
ContractFails(i) ==
    /\ flows[i].kind = "mint" /\ flows[i].pc = "getContract"
    /\ MintFails(i, "contractFails")

\* getContract returns; App.js:191, contract.safeMint(walletAddress, tokenURI)
\* is called and awaited
ContractArrives(i) ==
    /\ flows[i].kind = "mint" /\ flows[i].pc = "getContract"
    /\ ethereum
    /\ flows' = [flows EXCEPT ![i].pc = "safeMint"]
    /\ lastOp' = "safeMintCalled"
    /\ UNCHANGED <<appState, notifications, timers, objectURLs, ethereum, mounted,
                   chainId, connects, history>>

\* safeMint rejects: the user declines, the call reverts, the network drops
SafeMintFails(i) ==
    /\ flows[i].kind = "mint" /\ flows[i].pc = "safeMint"
    /\ MintFails(i, "safeMintFails")

\* handleMint keeping the transaction to itself until it is confirmed
SafeMintReturnsUnrecorded(i) ==
    /\ flows[i].kind = "mint" /\ flows[i].pc = "safeMint"
    /\ flows' = [flows EXCEPT ![i].pc = "wait"]
    /\ lastOp' = "safeMintReturns"
    /\ UNCHANGED <<appState, notifications, timers, objectURLs, ethereum, mounted,
                   chainId, connects, history>>

\* safeMint returns the transaction; App.js:192-195, to the await of tx.wait()
SafeMintReturns(i) ==
    /\ flows[i].kind = "mint" /\ flows[i].pc = "safeMint"
    /\ CanNotify(1)
    /\ \E hash \in TxHashes : txHash' = hash
    /\ SetStore(addNotification(Store,
           "Transaction sent! Waiting for confirmation...", "info"))
    /\ flows' = [flows EXCEPT ![i].pc = "wait"]
    /\ lastOp' = "safeMintReturns"
    /\ UNCHANGED <<prompt, imagePreview, tokenURI, loading, walletAddress,
                   objectURLs, ethereum, mounted, chainId, connects, history>>

\* tx.wait() rejects
WaitFails(i) ==
    /\ flows[i].kind = "mint" /\ flows[i].pc = "wait"
    /\ MintFails(i, "waitFails")

\* tx.wait() returns; App.js:196 and the finally block
WaitConfirms(i) ==
    /\ flows[i].kind = "mint" /\ flows[i].pc = "wait"
    /\ CanNotify(1)
    /\ SetStore(addNotification(Store, "NFT Minted Successfully!", "success"))
    /\ loading' = FALSE
    /\ flows' = [flows EXCEPT ![i] = Idle]
    /\ lastOp' = "waitConfirms"
    /\ UNCHANGED <<prompt, imagePreview, tokenURI, txHash, walletAddress,
                   objectURLs, ethereum, mounted, chainId, connects, history>>

-----------------------------------------------------------------------------
(* Wallet connection, App.js:83-119 *)

FreeConnects == {j \in 1..MaxConnects : connects[j] = Idle}

NewConnect == CHOOSE j \in FreeConnects : \A k \in FreeConnects : j <= k

\* connectWallet without the return of App.js:86: the error is notified of and
\* the accounts are requested all the same
ConnectNoProviderGoesOn ==
    /\ ~ethereum
    /\ FreeConnects # {}
    /\ CanNotify(1)
    /\ SetStore(addNotification(Store, "Please install MetaMask!", "error"))
    /\ connects' = [connects EXCEPT ![NewConnect] =
           [kind |-> "connect", pc |-> "accounts", switchCode |-> 0, adds |-> 0]]
    /\ lastOp' = "connectNoProvider"
    /\ UNCHANGED <<appState, objectURLs, ethereum, mounted, chainId, flows, history>>

\* App.js:84-87
ConnectNoProvider ==
    /\ ~ethereum
    /\ CanNotify(1)
    /\ SetStore(addNotification(Store, "Please install MetaMask!", "error"))
    /\ lastOp' = "connectNoProvider"
    /\ UNCHANGED <<appState, objectURLs, ethereum, mounted, chainId, flows, connects,
                   history>>

\* App.js:89-92, to the await of eth_requestAccounts
ConnectStarts ==
    /\ ethereum
    /\ FreeConnects # {}
    /\ CanNotify(1)
    /\ SetStore(addNotification(Store, "Connecting to wallet...", "info"))
    /\ connects' = [connects EXCEPT ![NewConnect] =
           [kind |-> "connect", pc |-> "accounts", switchCode |-> 0, adds |-> 0]]
    /\ lastOp' = "connectStarts"
    /\ UNCHANGED <<appState, objectURLs, ethereum, mounted, chainId, flows, history>>

connectWallet == ConnectNoProvider \/ ConnectStarts

\* the outer catch, App.js:116-118, which ends invocation j
ConnectFails(j, pc) ==
    /\ connects[j].kind = "connect" /\ connects[j].pc = pc
    /\ CanNotify(1)
    /\ \E m \in ErrorMessages :
           SetStore(addNotification(Store, "Connection failed: " \o m, "error"))
    /\ connects' = [connects EXCEPT ![j] = Idle]
    /\ lastOp' = "connectFails"
    /\ UNCHANGED <<appState, objectURLs, ethereum, mounted, chainId, flows, history>>

ConnectMoves(j, pc) ==
    /\ connects' = [connects EXCEPT ![j].pc = pc]
    /\ UNCHANGED <<appState, notifications, timers, objectURLs, ethereum, mounted, flows,
                   history>>

\* eth_requestAccounts is granted; App.js:94, to the await of getNetwork()
AccountsGranted(j) ==
    /\ connects[j].kind = "connect" /\ connects[j].pc = "accounts"
    /\ ConnectMoves(j, "network")
    /\ lastOp' = "accountsGranted"
    /\ UNCHANGED chainId

\* getNetwork() returns the expected chain; App.js:95, 112, to the await of
\* getSigner()
NetworkMatches(j) ==
    /\ connects[j].kind = "connect" /\ connects[j].pc = "network"
    /\ chainId = Sepolia
    /\ ConnectMoves(j, "signer")
    /\ lastOp' = "networkMatches"
    /\ UNCHANGED chainId

\* getNetwork() returns another chain; App.js:95-98, to the await of
\* wallet_switchEthereumChain
NetworkDiffers(j) ==
    /\ connects[j].kind = "connect" /\ connects[j].pc = "network"
    /\ chainId # Sepolia
    /\ CanNotify(1)
    /\ SetStore(addNotification(Store, "Switching to Sepolia network...", "info"))
    /\ connects' = [connects EXCEPT ![j].pc = "switch"]
    /\ lastOp' = "networkDiffers"
    /\ UNCHANGED <<appState, objectURLs, ethereum, mounted, chainId, flows, history>>

\* wallet_switchEthereumChain succeeds: the wallet is on the chain now; to
\* App.js:112
SwitchSucceeds(j) ==
    /\ connects[j].kind = "connect" /\ connects[j].pc = "switch"
    /\ chainId' = Sepolia
    /\ ConnectMoves(j, "signer")
    /\ lastOp' = "switchSucceeds"

\* a catch that drops every error of the chain switch, the unknown chain too
SwitchFailsDropsAll(j) ==
    /\ connects[j].kind = "connect" /\ connects[j].pc = "switch"
    /\ \E code \in SwitchErrorCodes :
        connects' = [connects EXCEPT ![j] =
            [kind |-> "connect", pc |-> "signer", switchCode |-> code,
             adds |-> connects[j].adds]]
    /\ lastOp' = "switchFails"
    /\ UNCHANGED <<appState, notifications, timers, objectURLs, ethereum, mounted,
                   chainId, flows, history>>

\* wallet_switchEthereumChain rejects with code; App.js:99-109: the unknown
\* chain is added, any other error is dropped
SwitchFails(j) ==
    /\ connects[j].kind = "connect" /\ connects[j].pc = "switch"
    /\ \E code \in SwitchErrorCodes :
        connects' = [connects EXCEPT ![j] =
            IF code = UnknownChain
            THEN [kind |-> "connect", pc |-> "add", switchCode |-> code,
                  adds |-> connects[j].adds + 1]
            ELSE [kind |-> "connect", pc |-> "signer", switchCode |-> code,
                  adds |-> connects[j].adds]]
    /\ lastOp' = "switchFails"
    /\ UNCHANGED <<appState, notifications, timers, objectURLs, ethereum, mounted,
                   chainId, flows, history>>

\* wallet_addEthereumChain succeeds: the wallet knows the chain, and switches to
\* it if the user agrees; to App.js:112
AddSucceeds(j) ==
    /\ connects[j].kind = "connect" /\ connects[j].pc = "add"
    /\ chainId' \in {chainId, Sepolia}
    /\ ConnectMoves(j, "signer")
    /\ lastOp' = "addSucceeds"

\* getSigner() and getAddress() return; App.js:113-115
SignerArrives(j) ==
    /\ connects[j].kind = "connect" /\ connects[j].pc = "signer"
    /\ CanNotify(1)
    /\ \E a \in Accounts :
        LET address == AddressOf(a)
        IN  /\ walletAddress' = address
            /\ SetStore(addNotification(Store,
                   "Wallet connected: " \o SliceHead(address) \o "..."
                       \o SliceTail(address), "success"))
    /\ connects' = [connects EXCEPT ![j] = Idle]
    /\ lastOp' = "walletConnected"
    /\ UNCHANGED <<prompt, imagePreview, tokenURI, txHash, loading, objectURLs,
                   ethereum, mounted, chainId, flows, history>>

-----------------------------------------------------------------------------
(* The user and the rendered controls *)

\* the textarea (App.js:280-287), disabled while loading
SetPrompt ==
    /\ ~loading
    /\ \E p \in Prompts : p # prompt /\ prompt' = p
    /\ lastOp' = "setPrompt"
    /\ UNCHANGED <<imagePreview, tokenURI, txHash, loading, walletAddress,
                   notifications, timers, objectURLs, ethereum, mounted, chainId, flows,
                   connects, history>>

\* a generate button that the busy flag does not disable
GenerateDisabledIgnoresBusy == trim(prompt) = <<>>

\* disabled={loading || !prompt.trim()} (App.js:293)
GenerateDisabled == loading \/ trim(prompt) = <<>>

\* disabled={loading || !tokenURI || !walletAddress} (App.js:301)
MintDisabled == loading \/ ~Truthy(tokenURI) \/ ~Truthy(walletAddress)

\* the connect button is rendered while !walletAddress (App.js:263-266)
ConnectShown == ~Truthy(walletAddress)

\* The timers of the notification store read and write the store alone, and
\* the flows only ever add to it and never read it: the two are independent.
\* Where the flows are specified, the pending timers fire before the next step
\* of a flow or of the user is taken.
Quiet == timers = {}

WhenQuiet(A) == Quiet /\ A

\* a timer of the notification store fires
TimerFires == ExpiryTimer \/ RemovalTimer

\* the user types a prompt
Types == WhenQuiet(SetPrompt)

\* the user clicks an enabled button
ClickGenerate == WhenQuiet(~GenerateDisabled /\ handleGenerate)

ClickMint == WhenQuiet(~MintDisabled /\ handleMint)

ClickConnect ==
    \/ WhenQuiet(ConnectShown /\ ConnectNoProvider)
    \/ WhenQuiet(ConnectShown /\ ConnectStarts)

\* the promise awaited by generate or mint flow i settles
FlowSettles(i) ==
    \/ WhenQuiet(ImageFails(i))
    \/ WhenQuiet(ImageArrives(i))
    \/ WhenQuiet(PinImageFails(i))
    \/ WhenQuiet(ImagePinned(i))
    \/ WhenQuiet(PinMetadataFails(i))
    \/ WhenQuiet(MetadataPinned(i))
    \/ WhenQuiet(ContractFails(i))
    \/ WhenQuiet(ContractArrives(i))
    \/ WhenQuiet(SafeMintFails(i))
    \/ WhenQuiet(SafeMintReturns(i))
    \/ WhenQuiet(WaitFails(i))
    \/ WhenQuiet(WaitConfirms(i))

\* the promise awaited by connectWallet invocation j settles
ConnectSettles(j) ==
    \/ WhenQuiet(ConnectFails(j, "accounts"))
    \/ WhenQuiet(AccountsGranted(j))
    \/ WhenQuiet(ConnectFails(j, "network"))
    \/ WhenQuiet(NetworkMatches(j))
    \/ WhenQuiet(NetworkDiffers(j))
    \/ WhenQuiet(SwitchSucceeds(j))
    \/ WhenQuiet(SwitchFails(j))
    \/ WhenQuiet(ConnectFails(j, "add"))
    \/ WhenQuiet(AddSucceeds(j))
    \/ WhenQuiet(ConnectFails(j, "signer"))
    \/ WhenQuiet(SignerArrives(j))

Settles ==
    \/ \E i \in 1..MaxFlows : FlowSettles(i)
    \/ \E j \in 1..MaxConnects : ConnectSettles(j)

-----------------------------------------------------------------------------
Init ==
    /\ prompt = <<>>
    /\ imagePreview = NULL
    /\ tokenURI = NULL
    /\ txHash = NULL
    /\ loading = FALSE
    /\ walletAddress = NULL
    /\ notifications = <<>>
    /\ timers = {}
    /\ objectURLs = {}
    /\ ethereum \in BOOLEAN
    /\ mounted = TRUE
    /\ chainId \in Chains
    /\ flows = [i \in 1..MaxFlows |-> Idle]
    /\ connects = [j \in 1..MaxConnects |-> Idle]
    /\ lastOp = "init"
    /\ lastGenerated = NoGeneration
    /\ completed = {}


\* The App as rendered: a handler runs when its control is enabled.
Next ==
    \/ Types
    \/ ClickGenerate
    \/ ClickMint
    \/ ClickConnect
    \/ Settles
    \/ TimerFires

Spec == Init /\ [][Next]_vars

\* The remote calls return or throw, and the timers fire.  A flow is resumed
\* when its promise settles whatever the timers do; here its step waits for
\* them, so that it is taken takes strong fairness.
Fairness ==
    /\ WF_vars(TimerFires)
    /\ \A i \in 1..MaxFlows : SF_vars(FlowSettles(i))

FairSpec == Spec /\ Fairness

\* No generate or mint flow is in flight.
NoFlow == \A i \in 1..MaxFlows : flows[i] = Idle

\* The handlers called one after the other, whatever the controls show: the
\* next of handleGenerate and handleMint is called when the last has ended.
\* handleMint is called with timers pending too.
CallGenerate ==
    \/ WhenQuiet(NoFlow /\ GenerateRejected)
    \/ WhenQuiet(NoFlow /\ GenerateStarts)

CallMint ==
    \/ FewPending /\ NoFlow /\ MintNoURI
    \/ FewPending /\ NoFlow /\ MintNoWallet
    \/ FewPending /\ NoFlow /\ MintStarts

CallConnect ==
    \/ WhenQuiet(ConnectNoProvider)
    \/ WhenQuiet(ConnectStarts)

HandlerNext ==
    \/ Types
    \/ CallGenerate
    \/ CallMint
    \/ CallConnect
    \/ Settles
    \/ TimerFires

HandlerSpec == Init /\ [][HandlerNext]_vars

\* The notification store by itself, in an App with a wallet on the expected
\* chain.
\* App is unmounted: the cleanup of the effect runs with the imagePreview of
\* the last render (App.js:75-81).  React drops the state of an unmounted
\* component and every later update of it.
Unmount ==
    /\ mounted
    /\ mounted' = FALSE
    /\ objectURLs' = EffectCleanup(objectURLs, imagePreview, NULL)
    /\ lastOp' = "unmount"
    /\ UNCHANGED <<appState, notifications, timers, ethereum, chainId, flows,
                   connects, history>>

\* generateImageWithPollinations returns to a generate flow whose App is
\* unmounted: the object URL is created (part_000:66-67), and
\* setImagePreview and addNotification (App.js:146-153) set nothing.
ImageArrivesUnmounted(i) ==
    /\ ~mounted
    /\ flows[i].kind = "generate" /\ flows[i].pc = "image"
    /\ \E n \in 1..MaxObjectURLs :
        /\ ObjectURL(n) \notin objectURLs
        /\ \A k \in 1..(n - 1) : ObjectURL(k) \in objectURLs
        /\ objectURLs' = objectURLs \cup {ObjectURL(n)}
    /\ flows' = [flows EXCEPT ![i] =
           [kind |-> "generate", pc |-> "pinImage", prompt |-> flows[i].prompt,
            latest |-> flows[i].latest, blob |-> "B"]]
    /\ lastOp' = "imageArrivesUnmounted"
    /\ UNCHANGED <<appState, notifications, timers, ethereum, mounted, chainId,
                   connects, history>>

\* The App until it is unmounted; of what still runs after that, the one step
\* that touches an object URL.
LifecycleNext ==
    \/ mounted /\ Next
    \/ Unmount
    \/ \E i \in 1..MaxFlows : ImageArrivesUnmounted(i)

LifecycleSpec == Init /\ [][LifecycleNext]_vars

StoreInit == Init /\ ethereum /\ chainId = Sepolia

\* The operations of the store called in any order, and its timers firing in
\* any order: every order that the delays allow is one of these.
StoreNext ==
    \/ Notify
    \/ Dismiss
    \/ ClearAll
    \/ ExpiryTimer
    \/ RemovalTimer
    \/ ClearTimer

StoreSpec == StoreInit /\ [][StoreNext]_vars

\* The store left to itself: notifications are added, time passes, and the
\* timers fire when they are due; the user dismisses and clears nothing.
TimedStoreNext ==
    \/ FewPending /\ Notify
    \/ DueTimerFires
    \/ TimePasses

TimedStoreSpec == StoreInit /\ [][TimedStoreNext]_vars

-----------------------------------------------------------------------------
(* Properties *)

InFlight(i, kind) == flows[i].kind = kind

\* the mint flows whose contract.safeMint call has been made
MintCalled(i) == InFlight(i, "mint") /\ flows[i].pc \in {"safeMint", "wait"}

\* the step is a call of handleMint
MintAttempt == lastOp' \in {"mintNoURI", "mintNoWallet", "mintStarts"}

\* the notifications the step adds
Added ==
    {k \in DOMAIN notifications' :
        notifications'[k].id \notin
            {notifications[m].id : m \in DOMAIN notifications}}

\* the step calls addNotification once, with an error
OneErrorNotification ==
    /\ Cardinality(Added) = 1
    /\ \A k \in Added : notifications'[k].type = "error"
    /\ Cardinality(timers' \ timers) = 1
    /\ \A t \in timers' \ timers : t.kind = "expire"

\* the step starts no flow and writes no state of App
NothingStarted == UNCHANGED <<appState, objectURLs, chainId, flows, connects>>

\* C1: safeMint is called only with a wallet address and a metadata URI that
\* are not null, and the URI is one a generate flow stored after both of its
\* pinning calls had succeeded.
MintCallHasTarget ==
    \A i \in 1..MaxFlows :
        MintCalled(i) =>
            /\ Truthy(flows[i].to)
            /\ Truthy(flows[i].uri)
            /\ flows[i].uri \in completed

MintCallHasTargetWitness ==
    \E i \in 1..MaxFlows :
        InFlight(i, "mint") /\ flows[i].pc = "safeMint" /\ flows[i].uri \in completed

\* C2: a generate attempt that passes validation has cleared the metadata URI
\* and the transaction hash when its first remote call is out, and a mint call
\* never carries a URI of a generation cycle older than the latest attempt.
StaleTargetNeverSubmitted ==
    /\ lastOp = "generateStarts" => tokenURI = NULL /\ txHash = NULL
    /\ \A i \in 1..MaxFlows :
        /\ (InFlight(i, "generate") /\ flows[i].pc = "image") =>
               tokenURI = NULL /\ txHash = NULL
        /\ MintCalled(i) => flows[i].uriLatest

\* a generate attempt has just invalidated the target of an earlier cycle
StaleTargetWitness ==
    /\ lastOp = "generateStarts"
    /\ completed # {}
    /\ ~lastGenerated.latest

\* C3: at most one generate or mint flow is in progress, the controls being
\* disabled while the busy flag is set.
FlowsExclusive == Cardinality({i \in 1..MaxFlows : flows[i] # Idle}) <= 1

\* a mint flow is in flight while nothing but the busy flag disables the
\* two buttons
FlowsExclusiveWitness ==
    /\ \E i \in 1..MaxFlows : InFlight(i, "mint")
    /\ loading
    /\ trim(prompt) # <<>>
    /\ Truthy(tokenURI)
    /\ Truthy(walletAddress)

\* C4: the busy flag is set exactly while a generate or mint flow is in
\* flight, and, the remote calls returning or throwing, busy is always
\* followed by idle.
BusyEventuallyIdle ==
    /\ [](loading <=> ~NoFlow)
    /\ loading ~> ~loading

BusyWitness ==
    \E i \in 1..MaxFlows : InFlight(i, "mint") /\ flows[i].pc = "wait" /\ loading

\* C5: a call of handleMint with a null metadata URI changes nothing: no
\* notification, no busy flag, no flow and so no contract call.
MintWithoutTargetIsNoOp ==
    [][(MintAttempt /\ ~Truthy(tokenURI)) =>
          /\ lastOp' = "mintNoURI"
          /\ NothingStarted
          /\ UNCHANGED <<notifications, timers, ethereum, mounted, history>>]_vars

MintWithoutTargetWitness ==
    /\ lastOp = "mintNoURI"
    /\ tokenURI = NULL
    /\ Truthy(walletAddress)

\* C6, as stated: a call of handleMint with no wallet address adds exactly one
\* error notification and makes no contract call.
MintWithoutWalletNotifiesOnce ==
    [][(MintAttempt /\ ~Truthy(walletAddress)) =>
          OneErrorNotification /\ NothingStarted]_vars

\* C6, amended: a call of handleMint with a metadata URI and no wallet address
\* adds exactly one error notification and makes no contract call; with
\* neither, it adds no notification at all.
MintWithTargetWithoutWalletNotifiesOnce ==
    [][(MintAttempt /\ ~Truthy(walletAddress)) =>
          /\ NothingStarted
          /\ IF Truthy(tokenURI)
             THEN lastOp' = "mintNoWallet" /\ OneErrorNotification
             ELSE UNCHANGED <<notifications, timers>>]_vars

MintWithoutWalletWitness ==
    /\ lastOp = "mintNoWallet"
    /\ Truthy(tokenURI)
    /\ walletAddress = NULL
    /\ \E k \in DOMAIN notifications :
           notifications[k].message = "Connect wallet first!"

\* C7: while the image call of a generate flow is out, the displayed image,
\* the metadata URI and the transaction hash are null already; when that call
\* fails, no pinning call follows and image and URI are still null.
ClearedBeforeImageCall ==
    /\ \A i \in 1..MaxFlows :
          (InFlight(i, "generate") /\ flows[i].pc = "image") =>
              imagePreview = NULL /\ tokenURI = NULL /\ txHash = NULL
    /\ lastOp = "imageFails" =>
          /\ NoFlow
          /\ imagePreview = NULL
          /\ tokenURI = NULL

\* the image call fails in an attempt that follows a completed cycle, whose
\* image was on display
ImageFailsWitness ==
    /\ lastOp = "imageFails"
    /\ completed # {}
    /\ objectURLs = {}

\* C8: a generate flow that succeeds with image CID c1 and metadata CID c2
\* has pinned a document whose image is "ipfs://" + c1 and which embeds the
\* prompt, and has stored "ipfs://" + c2 as the mint target.
RedFox == <<"a", " ", "r", "e", "d", " ", "f", "o", "x">>

MetadataLinksPinnedImage ==
    lastOp = "metadataPinned" =>
        LET g == lastGenerated
        IN  /\ g.metadata.image = "ipfs://" \o g.imageCID
            /\ g.metadata.description =
                   "Generated with Pollinations AI: \"" \o Join(prompt) \o "\""
            /\ g.metadata.attributes[3] =
                   [trait_type |-> "Prompt", value |-> Join(prompt)]
            /\ tokenURI = "ipfs://" \o g.metadataCID
            /\ (prompt = RedFox /\ g.imageCID = "Qimg" /\ g.metadataCID = "Qmeta") =>
                   /\ g.metadata.image = "ipfs://Qimg"
                   /\ g.metadata.attributes[3].value = "a red fox"
                   /\ tokenURI = "ipfs://Qmeta"

MetadataLinksPinnedImageWitness ==
    /\ lastOp = "metadataPinned"
    /\ prompt = RedFox
    /\ lastGenerated.imageCID = "Qimg"
    /\ lastGenerated.metadataCID = "Qmeta"

\* C9: a connectWallet invocation whose chain switch failed with the unknown
\* chain code has made exactly one chain-add request, no other invocation has
\* made any, and the request is settled when the invocation ends.
OneChainAddOnUnknownChain ==
    /\ [](\A j \in 1..MaxConnects :
            connects[j].kind = "connect" =>
                /\ connects[j].adds =
                       (IF connects[j].switchCode = UnknownChain THEN 1 ELSE 0)
                /\ connects[j].pc = "add" => connects[j].switchCode = UnknownChain)
    /\ [][\A j \in 1..MaxConnects :
            (connects[j].kind = "connect" /\ lastOp' = "walletConnected"
                /\ connects'[j] = Idle /\ connects[j].switchCode = UnknownChain) =>
                /\ connects[j].adds = 1
                /\ connects[j].pc = "signer"
                /\ Cardinality(Added) = 1]_vars

\* the chain was added on an unknown-chain error, and the address is awaited
OneChainAddWitness ==
    \E j \in 1..MaxConnects :
        /\ connects[j].kind = "connect"
        /\ connects[j].pc = "signer"
        /\ connects[j].switchCode = UnknownChain
        /\ connects[j].adds = 1

\* C10: when connectWallet ends with the address set and the success
\* notification added, the wallet is on the expected test network.
ConnectedOnExpectedChain == lastOp = "walletConnected" => chainId = Sepolia

-----------------------------------------------------------------------------
(* Properties of the notification store *)

\* the notifications listed
Listed == {notifications[i] : i \in DOMAIN notifications}

\* the timers of kind pending for the notification with id
Pending(kind, id) == {t \in timers : t.kind = kind /\ t.id = id}

\* C11, as stated: a notification is out of the list when 5 time units (5000
\* ms) have passed since it was added, with no user action.
OutOfListAfterExpiryDelay == \A n \in Listed : n.age <= ExpiryDelay

\* C11, amended: with no user action a notification is marked removing when
\* 5000 ms have passed since it was added and is out of the list 300 ms later:
\* it is never listed at an age above 5300 ms, until 5000 ms it has its expiry
\* timer pending, and after that it is marked removing with its removal
\* pending.
OutOfListAfterExpiryAndExitDelay ==
    \A n \in Listed :
        /\ n.age <= ExpiryDelay + ExitDelay
        /\ n.age > ExpiryDelay => n.removing
        /\ IF n.removing
           THEN \E t \in Pending("remove", n.id) :
                    t.left = ExpiryDelay + ExitDelay - n.age
           ELSE \E t \in Pending("expire", n.id) :
                    t.left = ExpiryDelay - n.age

\* a notification in the last instant of its exit animation, and a younger
\* one beside it
OutOfListWitness ==
    /\ \E n \in Listed : n.age = ExpiryDelay + ExitDelay /\ n.removing
    /\ \E n \in Listed : n.age < ExpiryDelay /\ ~n.removing

\* the ids of a list of notifications, in its order
IdSeq(list) == [i \in DOMAIN list |-> list[i].id]

ListedIds == {n.id : n \in Listed}

\* the entry a notify step has appended
Appended == notifications'[Len(notifications')]

\* the notify step drops an entry of the same message
Coalesces == \E n \in Listed : n.message = Appended.message

\* C12: whatever the interleaving of notify, dismiss, clear-all and timers,
\* the list is never longer than the notify calls made less the coalescions:
\* a notify call that coalesces nothing lengthens the list by one, a notify
\* call that coalesces leaves its length as it is, and no other step
\* lengthens it.
LengthWithinCallsLessCoalescions ==
    [][IF lastOp' = "notify"
       THEN Len(notifications') =
                Len(notifications) + (IF Coalesces THEN 0 ELSE 1)
       ELSE Len(notifications') <= Len(notifications)]_vars

\* a notify call has coalesced: one entry is listed, and the timer of
\* another, which is listed no more, is pending
LengthWitness ==
    /\ lastOp = "notify"
    /\ Len(notifications) = 1
    /\ \E t \in timers : t.kind = "expire" /\ t.id \notin ListedIds
    /\ \A t \in timers : t.kind = "expire"

\* C13: no two listed notifications have the same message; a notify call
\* drops the entry of the same message and appends the new one at the end;
\* and every step keeps the entries that stay in the order they were in.
NoDuplicatesInInsertionOrder ==
    /\ [](\A i \in DOMAIN notifications : \A j \in DOMAIN notifications :
             notifications[i].message = notifications[j].message => i = j)
    /\ [][/\ lastOp' = "notify" =>
               /\ Appended.id \notin ListedIds
               /\ ~Appended.removing
               /\ notifications' =
                      Append(SelectSeq(notifications,
                                 LAMBDA n : n.message # Appended.message),
                             Appended)
           /\ IdSeq(SelectSeq(notifications', LAMBDA n : n.id \in ListedIds))
                  = IdSeq(SelectSeq(notifications,
                        LAMBDA n : n.id \in {notifications'[k].id :
                                                k \in DOMAIN notifications'}))
          ]_vars

\* the first of two entries was notified of again and is the last now
NoDuplicatesWitness ==
    /\ lastOp = "notify"
    /\ Len(notifications) = 2
    /\ notifications[1].id = 2
    /\ \E t \in timers : t.kind = "expire" /\ t.id \notin ListedIds

-----------------------------------------------------------------------------
(* Properties of the handlers, continued *)

\* the step is a call of connectWallet
ConnectAttempt == lastOp' \in {"connectNoProvider", "connectStarts"}

\* C14: connectWallet with no injected provider adds the one error
\* notification "Please install MetaMask!" and returns: no account, network,
\* chain-switch or chain-add request is ever out, and the wallet address stays
\* null.
ConnectWithoutProviderFails ==
    /\ [](~ethereum =>
             /\ walletAddress = NULL
             /\ \A j \in 1..MaxConnects : connects[j] = Idle)
    /\ [][(ConnectAttempt /\ ~ethereum) =>
             /\ lastOp' = "connectNoProvider"
             /\ OneErrorNotification
             /\ \A k \in Added :
                    notifications'[k].message = "Please install MetaMask!"
             /\ NothingStarted
             /\ walletAddress' = NULL]_vars

ConnectWithoutProviderWitness ==
    /\ lastOp = "connectNoProvider"
    /\ ~ethereum
    /\ \E n \in Listed : n.message = "Please install MetaMask!" /\ n.type = "error"
    /\ walletAddress = NULL

\* the remote call generate flow i is waiting for
Awaits(i, pc) == InFlight(i, "generate") /\ flows[i].pc = pc

GenerateFailures == {"imageFails", "pinImageFails", "pinMetadataFails"}

\* C15: a generate flow awaits the image call, then the pinning of the image,
\* then the pinning of the metadata, each call made by the step in which the
\* one before returned successfully; a failure of any of them ends the flow
\* with no further call, the metadata URI null, and the image the flow has
\* displayed still displayed and not released.
GenerateCallsInSequence ==
    /\ [](\A i \in 1..MaxFlows :
             InFlight(i, "generate") =>
                 /\ flows[i].pc \in {"image", "pinImage", "pinMetadata"}
                 /\ tokenURI = NULL
                 /\ flows[i].pc = "image" => imagePreview = NULL
                 /\ flows[i].pc # "image" =>
                        Truthy(imagePreview) /\ imagePreview \in objectURLs)
    /\ [][\A i \in 1..MaxFlows :
             (InFlight(i, "generate") /\ flows'[i] # flows[i]) =>
                 \/ /\ Awaits(i, "image") /\ lastOp' = "imageArrives"
                    /\ flows'[i].kind = "generate" /\ flows'[i].pc = "pinImage"
                 \/ /\ Awaits(i, "pinImage") /\ lastOp' = "imagePinned"
                    /\ flows'[i].kind = "generate" /\ flows'[i].pc = "pinMetadata"
                 \/ /\ Awaits(i, "pinMetadata") /\ lastOp' = "metadataPinned"
                    /\ flows'[i] = Idle
                 \/ /\ lastOp' \in GenerateFailures
                    /\ flows'[i] = Idle
                    /\ \A k \in 1..MaxFlows : flows'[k] = Idle
                    /\ tokenURI' = NULL
                    /\ imagePreview' = imagePreview
                    /\ objectURLs' = objectURLs]_vars

\* the pinning of the metadata has failed: the image is displayed, there is
\* no metadata URI
GenerateCallsWitness ==
    /\ lastOp = "pinMetadataFails"
    /\ NoFlow
    /\ Truthy(imagePreview)
    /\ imagePreview \in objectURLs
    /\ tokenURI = NULL

MintFailures == {"contractFails", "safeMintFails", "waitFails"}

\* the step adds a notification of this message
Notifies(message) == \E k \in Added : notifications'[k].message = message

\* C16: when safeMint returns, the same step records the transaction hash and
\* adds the submitted notification, and only then is the confirmation awaited;
\* the success notification is added by the step in which the confirmation
\* arrives and by no other; a throw anywhere in the flow ends it with one
\* error notification, no further contract call, and the transaction hash as
\* it was.
MintRecordsBeforeConfirmation ==
    /\ [](\A i \in 1..MaxFlows :
             (InFlight(i, "mint") /\ flows[i].pc = "wait") => txHash \in TxHashes)
    /\ [][\A i \in 1..MaxFlows :
             (InFlight(i, "mint") /\ flows'[i] # flows[i]) =>
                 \/ /\ flows[i].pc = "getContract" /\ lastOp' = "safeMintCalled"
                    /\ flows'[i] = [flows[i] EXCEPT !.pc = "safeMint"]
                    /\ UNCHANGED <<txHash, notifications>>
                 \/ /\ flows[i].pc = "safeMint" /\ lastOp' = "safeMintReturns"
                    /\ flows'[i] = [flows[i] EXCEPT !.pc = "wait"]
                    /\ txHash' \in TxHashes
                    /\ Cardinality(Added) = 1
                    /\ Notifies("Transaction sent! Waiting for confirmation...")
                    /\ loading'
                 \/ /\ flows[i].pc = "wait" /\ lastOp' = "waitConfirms"
                    /\ flows'[i] = Idle
                    /\ Cardinality(Added) = 1
                    /\ Notifies("NFT Minted Successfully!")
                    /\ UNCHANGED txHash
                 \/ /\ lastOp' \in MintFailures
                    /\ lastOp' = "waitFails" <=> flows[i].pc = "wait"
                    /\ OneErrorNotification
                    /\ \A k \in 1..MaxFlows : flows'[k] = Idle
                    /\ ~loading'
                    /\ UNCHANGED txHash]_vars
    /\ [][Notifies("NFT Minted Successfully!") => lastOp' = "waitConfirms"]_vars

\* the confirmation has failed: the hash recorded when safeMint returned is
\* in place
MintRecordsWitness ==
    /\ lastOp = "waitFails"
    /\ txHash \in TxHashes
    /\ NoFlow
    /\ \E n \in Listed : n.type = "error"

\* C17: at most one object URL is created and not revoked, it is the one
\* displayed, and none is left when App is unmounted.
ObjectURLsReleased ==
    /\ Cardinality(objectURLs) <= 1
    /\ objectURLs \subseteq {imagePreview}
    /\ ~mounted => objectURLs = {}

-----------------------------------------------------------------------------
(* Properties of the notification store, continued *)

\* C18: whatever the interleaving of notify, dismiss, clear-all and timers,
\* a notification that leaves the list was marked removing before.
MarkedBeforeRemoved ==
    [][\A n \in Listed :
          n.id \notin {notifications'[k].id : k \in DOMAIN notifications'} =>
              n.removing]_vars

\* the list with the entry of this id marked removing, and nothing else changed
Marked(id) ==
    [i \in DOMAIN notifications |->
        IF notifications[i].id = id
        THEN [notifications[i] EXCEPT !.removing = TRUE]
        ELSE notifications[i]]

\* the list without the entry of this id, and nothing else changed
Without(id) == SelectSeq(notifications, LAMBDA n : n.id # id)

ExitTimer(id) == [kind |-> "remove", id |-> id, left |-> ExitDelay]

\* C19: removeNotification(id), called by the close button or by the expiry
\* timer, marks the entry of that id, changes no other entry and starts the
\* timer of the exit delay for that id; when that timer fires it takes the
\* entry of that id out of the list and changes no other entry and no order;
\* for an id that is not listed either step leaves the list as it is.
DismissTouchesOneNotification ==
    [][/\ lastOp' = "dismiss" =>
            \E id \in ListedIds :
                /\ notifications' = Marked(id)
                /\ timers' = timers \cup {ExitTimer(id)}
       /\ lastOp' = "expiryTimer" =>
            \E t \in timers :
                /\ t.kind = "expire"
                /\ notifications' = Marked(t.id)
                /\ timers' = (timers \ {t}) \cup {ExitTimer(t.id)}
                /\ t.id \notin ListedIds => notifications' = notifications
       /\ lastOp' = "removalTimer" =>
            \E t \in timers :
                /\ t.kind = "remove"
                /\ notifications' = Without(t.id)
                /\ Len(notifications') >= Len(notifications) - 1
                /\ timers' = timers \ {t}
                /\ t.id \notin ListedIds => notifications' = notifications
      ]_vars

\* the second of two entries was dismissed, the first is as it was
DismissWitness ==
    /\ lastOp = "dismiss"
    /\ Len(notifications) = 2
    /\ ~notifications[1].removing
    /\ notifications[2].removing
    /\ \E t \in timers : t.kind = "expire" /\ t.id \notin ListedIds

-----------------------------------------------------------------------------
(* Properties of the handlers, continued *)

\* the prompt has no character but white space
Blank(p) == \A i \in DOMAIN p : IsSpace(p[i])

\* the step is a call of handleGenerate
GenerateAttempt == lastOp' \in {"generateRejected", "generateStarts"}

\* C20: a call of handleGenerate with an empty or blank prompt adds the one
\* error notification "Please enter a prompt!" and returns: the busy flag is
\* not set, no flow is started and so no remote call made, and the displayed
\* image, the metadata URI and the transaction hash are as they were.
BlankPromptRejected ==
    [][(GenerateAttempt /\ Blank(prompt)) =>
          /\ lastOp' = "generateRejected"
          /\ OneErrorNotification
          /\ Notifies("Please enter a prompt!")
          /\ ~loading'
          /\ NothingStarted
          /\ UNCHANGED <<imagePreview, tokenURI, txHash>>]_vars

\* a blank prompt was rejected after a generation cycle had completed
BlankPromptWitness ==
    /\ lastOp = "generateRejected"
    /\ prompt = <<" ", " ">>
    /\ \E n \in Listed : n.message = "Please enter a prompt!" /\ n.type = "error"
    /\ ~loading
    /\ NoFlow
    /\ Truthy(imagePreview)
    /\ Truthy(tokenURI)

====
